---- MODULE Spec2Model ----
(***************************************************************************)
(* A model of src/main.py: the two HTTP handlers find_item and query_data  *)
(* of the Wikidata plugin.  One behaviour is one request.  The upstream    *)
(* services (the Wikidata search API, the Datamuse thesaurus, the Wikidata *)
(* SPARQL endpoint) and the fuzzywuzzy scoring function are the            *)
(* environment: their replies are chosen nondeterministically.             *)
(*                                                                         *)
(* Strings on which the code calls lower() are sequences of one-character  *)
(* strings, so that lower-casing is computed and not assumed.              *)
(***************************************************************************)
EXTENDS Integers, Sequences, FiniteSets, TLC

\* ------------------------------------------------------------ bounds
MaxQueries == 2
MaxRows == 2
MaxMatches == 6

\* ------------------------------------------------- program constants
Threshold == 80
SearchLimit == 5
ErrorStatus == 500

\* ----------------------------------------------------------- strings
LowerChar(c) ==
    CASE c = "H" -> "h"
      [] c = "T" -> "t"
      [] c = "M" -> "m"
      [] OTHER -> c

Lower(s) == [i \in DOMAIN s |-> LowerChar(s[i])]

\* The caller's terms, the attribute labels and the values of the rows.
QueryUniverse == {<<"h", "T">>, <<"m">>}
LabelUniverse == {<<"H", "t">>, <<"l", "o">>}
ValueUniverse == {"v1", "v2"}
\* The related words the thesaurus returns.
WordUniverse == {<<"m">>}

SeqsUpTo(S, n) == UNION {[1..k -> S] : k \in 0..n}

\* ------------------------------------------- fuzz.partial_ratio
\* The scores of the pairs of distinct strings are the library's; a table of
\* them is part of the environment.  Equal strings score 100.
ScoreUniverse == {79, 80}
RatioPairs ==
    {p \in {Lower(q) : q \in QueryUniverse \cup WordUniverse}
             \X {Lower(l) : l \in LabelUniverse} : p[1] # p[2]}
RatioTables == [RatioPairs -> ScoreUniverse]

VARIABLES
    endpoint,          \* the handler serving the request
    pc,                \* the handler's position
    queries,           \* query_data's parameter `queries`
    ratio,             \* the table of fuzz.partial_ratio
    qi,                \* index of the next term of `for query in queries` (line 63)
    synonyms,          \* query_data's local `synonyms`
    calls,             \* the outbound calls issued so far, with their replies
    results,           \* query_data's local `results`
    ri,                \* index of the next row of `for result in results` (line 96)
    filtered_results,  \* query_data's local `filtered_results`
    search_results,    \* find_item's local `search_results`
    response           \* what the handler returned

vars == <<endpoint, pc, queries, ratio, qi, synonyms, calls, results, ri,
          filtered_results, search_results, response>>

partial_ratio(s1, s2) == IF s1 = s2 THEN 100 ELSE ratio[<<s1, s2>>]

\* -------------------------------------------------------- responses
EmptyMap == [k \in {} |-> <<>>]
NoResponse == [status |-> 0, error |-> "none", data |-> EmptyMap, trailer |-> FALSE]

\* Response(content=f"{json.dumps(...)} <instruction>"): status 200.
DataResponse(data) ==
    [status |-> 200, error |-> "none", data |-> data, trailer |-> TRUE]

\* JSONResponse(content={"error": <fixed hint>}, status_code=500)
NoDataResponse ==
    [status |-> ErrorStatus, error |-> "no_data", data |-> EmptyMap, trailer |-> FALSE]

\* except Exception as err: JSONResponse({"error": f"Failed ...: {err}"}, 500)
ErrorResponseWithPartial(err) ==
    [status |-> ErrorStatus, error |-> err, data |-> filtered_results, trailer |-> FALSE]

ErrorResponse(err) ==
    [status |-> ErrorStatus, error |-> err, data |-> EmptyMap, trailer |-> FALSE]

\* ------------------------------------------------- upstream replies
Down == [net |-> "down", status |-> 0, body |-> "none", payload |-> <<>>]
Reply(status, body, payload) ==
    [net |-> "ok", status |-> status, body |-> body, payload |-> payload]

\* requests.Response.ok: raise_for_status() does not raise, i.e. status < 400.
ResponseOkIgnored(reply) == TRUE

ResponseOk(reply) == reply.status < 400

\* The thesaurus: unreachable, or a status and a body; the body is a JSON list
\* of {"word": ...} objects, is not JSON, or is JSON of another shape.
ThesaurusReplies ==
    {Down}
    \cup {Reply(200, "list", <<w>>) : w \in WordUniverse}
    \cup {Reply(503, "list", <<>>), Reply(503, "notjson", <<>>),
          Reply(200, "notjson", <<>>), Reply(200, "badshape", <<>>)}

\* Lines 64-67: what requests.get(...).json() and the comprehension raise.
\* The status of the reply is never read.
ThesaurusRaises(reply) ==
    CASE reply.net = "down" -> "ConnectionError"
      [] reply.body = "notjson" -> "JSONDecodeError"
      [] reply.body = "badshape" -> "TypeError"
      [] OTHER -> "none"

\* The rows of a SPARQL result; a row may lack either field.
RowUniverse ==
    [wdLabel : LabelUniverse, ps_Label : ValueUniverse]
    \cup {[ps_Label |-> "v1"], [wdLabel |-> <<"H", "t">>]}

GraphReplies ==
    {Down, Reply(200, "notjson", <<>>), Reply(200, "nobindings", <<>>),
     Reply(503, "notjson", <<>>)}
    \cup {Reply(s, "bindings", rows) : s \in {200, 503}, rows \in SeqsUpTo(RowUniverse, MaxRows)}

\* Lines 89-94 and 111: what the call, raise_for_status, json.loads and
\* data['results']['bindings'] raise.
GraphRaises(reply) ==
    CASE reply.net = "down" -> "ConnectionError"
      [] ~ResponseOk(reply) -> "HTTPError"
      [] reply.body = "notjson" -> "JSONDecodeError"
      [] reply.body = "nobindings" -> "KeyError"
      [] OTHER -> "none"

\* ------------------------------------------------------- the filter
\* Line 99: the terms the rows are scored against.
FilterTermsWithSynonyms(qs, syn) ==
    LET RECURSIVE Flat(_)
        Flat(s) == IF s = <<>> THEN <<>> ELSE Head(s) \o Flat(Tail(s))
    IN  qs \o Flat(syn)

FilterTerms(qs, syn) == qs

\* Line 100: the test of one term against the key.
AcceptsStrictly(term, key) == partial_ratio(Lower(term), Lower(key)) > Threshold

Accepts(term, key) == partial_ratio(Lower(term), Lower(key)) >= Threshold

\* Lines 99-105: the index of the first term that accepts the key, 0 if none.
MatchIndexFirstOnly(terms, key) ==
    IF terms # <<>> /\ Accepts(terms[1], key) THEN 1 ELSE 0

MatchIndex(terms, key) ==
    LET RECURSIVE Scan(_)
        Scan(i) == IF i > Len(terms) THEN 0
                   ELSE IF Accepts(terms[i], key) THEN i
                   ELSE Scan(i + 1)
    IN  Scan(1)

\* Lines 101-104.
StoreOverwriting(fr, key, value) ==
    [k \in DOMAIN fr \cup {key} |-> IF k = key THEN <<value>> ELSE fr[k]]

Store(fr, key, value) ==
    IF key \in DOMAIN fr
    THEN [fr EXCEPT ![key] = Append(@, value)]
    ELSE [k \in DOMAIN fr \cup {key} |-> IF k = key THEN <<value>> ELSE fr[k]]

\* Lines 97-98: the row has both fields.
WellFormed(row) == {"wdLabel", "ps_Label"} \subseteq DOMAIN row

\* Lines 97-105: one pass of the outer loop's body over a well-formed row.
FilterOne(fr, row, terms) ==
    IF MatchIndex(terms, row.wdLabel) # 0
    THEN Store(fr, row.wdLabel, row.ps_Label)
    ELSE fr

\* Lines 106-109.
AssembleUnchecked(fr) == DataResponse(fr)

Assemble(fr) == IF DOMAIN fr # {} THEN DataResponse(fr) ELSE NoDataResponse

\* Lines 88-116 as a function of the terms, the synonyms and the reply of the
\* SPARQL endpoint.
RECURSIVE FilterFrom(_, _, _)
FilterFrom(fr, rows, terms) ==
    IF rows = <<>> THEN Assemble(fr)
    ELSE IF ~WellFormed(Head(rows)) THEN ErrorResponse("KeyError")
    ELSE FilterFrom(FilterOne(fr, Head(rows), terms), Tail(rows), terms)

AfterSynonyms(qs, syn, reply) ==
    IF GraphRaises(reply) # "none" THEN ErrorResponse(GraphRaises(reply))
    ELSE FilterFrom(EmptyMap, reply.payload, FilterTerms(qs, syn))

\* ------------------------------------------------------- find_item
EntityUniverse ==
    {[id |-> "Q1", label |-> "a", description |-> "d"], [id |-> "Q2", label |-> "b"]}

\* wbsearchentities with "limit": the first `limit` of the matches.
SearchEntities(matches, limit) ==
    SubSeq(matches, 1, IF Len(matches) < limit THEN Len(matches) ELSE limit)

SearchReplies ==
    {Down, Reply(200, "notjson", <<>>), Reply(200, "nosearch", <<>>),
     Reply(200, "notdict", <<>>), Reply(503, "notjson", <<>>)}
    \cup {Reply(s, "search", SearchEntities(m, SearchLimit)) :
            s \in {200, 503}, m \in SeqsUpTo(EntityUniverse, MaxMatches)}

\* dict.get(field): None when the field is absent.
Get(d, field) == IF field \in DOMAIN d THEN d[field] ELSE "None"

\* Lines 39-45.
Entries(reply) ==
    IF reply.body = "search"
    THEN [i \in DOMAIN reply.payload |->
            [id |-> Get(reply.payload[i], "id"),
             label |-> Get(reply.payload[i], "label"),
             description |-> Get(reply.payload[i], "description")]]
    ELSE <<>>

\* Lines 33-37, 40 and 51.
SearchRaises(reply) ==
    CASE reply.net = "down" -> "ConnectionError"
      [] ~ResponseOk(reply) -> "HTTPError"
      [] reply.body = "notjson" -> "JSONDecodeError"
      [] reply.body = "notdict" -> "AttributeError"
      [] OTHER -> "none"

\* Line 46.
AnyListIsNonEmpty(sr) == TRUE

NonEmpty(sr) == Len(sr) # 0

\* ---------------------------------------------------------- actions
InitFindItem ==
    /\ endpoint = "find_item"
    /\ pc = "search"
    /\ queries = <<>>
    /\ ratio = [p \in RatioPairs |-> 79]

InitQueryData ==
    /\ endpoint = "query_data"
    /\ pc = "synonyms"
    /\ queries \in SeqsUpTo(QueryUniverse, MaxQueries)
    /\ ratio \in RatioTables

Init ==
    /\ InitFindItem \/ InitQueryData
    /\ qi = 1
    /\ synonyms = <<>>
    /\ calls = <<>>
    /\ results = <<>>
    /\ ri = 1
    /\ filtered_results = EmptyMap
    /\ search_results = <<>>
    /\ response = NoResponse

Call(to, arg, reply) == [to |-> to, arg |-> arg, reply |-> reply]

\* find_item, lines 24-56.
FindItem ==
    /\ pc = "search"
    /\ \E reply \in SearchReplies :
         /\ calls' = Append(calls, Call("wikidata_search", <<>>, reply))
         /\ IF SearchRaises(reply) # "none"
            THEN /\ response' = ErrorResponse(SearchRaises(reply))
                 /\ UNCHANGED search_results
            ELSE /\ search_results' = Entries(reply)
                 /\ response' = IF NonEmpty(Entries(reply))
                                THEN DataResponse(Entries(reply))
                                ELSE NoDataResponse
    /\ pc' = "done"
    /\ UNCHANGED <<endpoint, queries, ratio, qi, synonyms, results, ri, filtered_results>>

\* query_data, lines 63-67: one pass of the loop over the terms.
SynonymLookup ==
    /\ pc = "synonyms"
    /\ qi <= Len(queries)
    /\ \E reply \in ThesaurusReplies :
         /\ calls' = Append(calls, Call("datamuse", queries[qi], reply))
         /\ IF ThesaurusRaises(reply) # "none"
            THEN /\ response' = ErrorResponse(ThesaurusRaises(reply))
                 /\ pc' = "done"
                 /\ UNCHANGED <<qi, synonyms>>
            ELSE /\ synonyms' = Append(synonyms, reply.payload)
                 /\ qi' = qi + 1
                 /\ UNCHANGED <<pc, response>>
    /\ UNCHANGED <<endpoint, queries, ratio, results, ri, filtered_results, search_results>>

\* query_data, lines 69-95 and 110-111: the SPARQL call and the parse of its reply.
GraphQuery ==
    /\ pc = "synonyms"
    /\ qi > Len(queries)
    /\ \E reply \in GraphReplies :
         /\ calls' = Append(calls, Call("sparql", <<>>, reply))
         /\ IF GraphRaises(reply) # "none"
            THEN /\ response' = ErrorResponse(GraphRaises(reply))
                 /\ pc' = "done"
                 /\ UNCHANGED results
            ELSE /\ results' = reply.payload
                 /\ pc' = "filter"
                 /\ UNCHANGED response
    /\ UNCHANGED <<endpoint, queries, ratio, qi, synonyms, ri, filtered_results, search_results>>

\* query_data, lines 96-105: one pass of the loop over the rows.
FilterRow ==
    /\ pc = "filter"
    /\ ri <= Len(results)
    /\ IF ~WellFormed(results[ri])
       THEN /\ response' = ErrorResponse("KeyError")
            /\ pc' = "done"
            /\ UNCHANGED <<ri, filtered_results>>
       ELSE /\ filtered_results' =
                 FilterOne(filtered_results, results[ri], FilterTerms(queries, synonyms))
            /\ ri' = ri + 1
            /\ UNCHANGED <<pc, response>>
    /\ UNCHANGED <<endpoint, queries, ratio, qi, synonyms, calls, results, search_results>>

\* query_data, lines 106-109.
Respond ==
    /\ pc = "filter"
    /\ ri > Len(results)
    /\ response' = Assemble(filtered_results)
    /\ pc' = "done"
    /\ UNCHANGED <<endpoint, queries, ratio, qi, synonyms, calls, results, ri,
                   filtered_results, search_results>>

Next == FindItem \/ SynonymLookup \/ GraphQuery \/ FilterRow \/ Respond

Spec == Init /\ [][Next]_vars

\* ------------------------------------------------------ the claims
QueryDataDone == endpoint = "query_data" /\ pc = "done"

\* The reply of the SPARQL endpoint, once the call has been issued.
GraphCalled == calls # <<>> /\ calls[Len(calls)].to = "sparql"
GraphReply == calls[Len(calls)].reply

\* The rows the filtering loop has been through.
Processed == 1..(ri - 1)

Score(term, row) == partial_ratio(Lower(term), Lower(row.wdLabel))
SomeTermReaches80(row) == \E j \in 1..Len(queries) : Score(queries[j], row) >= 80

Listed(row) ==
    /\ row.wdLabel \in DOMAIN filtered_results
    /\ \E k \in 1..Len(filtered_results[row.wdLabel]) :
         filtered_results[row.wdLabel][k] = row.ps_Label

\* An outbound call failed: the service was unreachable, answered with a
\* non-success status, or sent a body that is not what the caller parses.
CallFailed(reply) ==
    \/ reply.net = "down"
    \/ reply.status >= 400
    \/ reply.body \in {"notjson", "badshape", "nobindings", "notdict"}

IsErrorBody(r) == r.error # "none" /\ r.status >= 400 /\ DOMAIN r.data = {} /\ ~r.trailer

\* C1: a processed binding's value is in FilteredResult under its attribute
\* label iff some term scores 80 or more against the lower-cased label; 80
\* includes, 79 excludes, and an empty term list includes nothing.
C1_IncludedIffSomeTermReaches80 ==
    endpoint = "query_data" =>
        \A i \in Processed : Listed(results[i]) <=> SomeTermReaches80(results[i])

C1_Witness ==
    /\ QueryDataDone
    /\ response.error = "none"
    /\ \E i, k \in Processed :
         /\ Listed(results[i])
         /\ \A j \in 1..Len(queries) : Score(queries[j], results[i]) <= 80
         /\ ~Listed(results[k])
         /\ \E j \in 1..Len(queries) : Score(queries[j], results[k]) = 79

\* C2: when the SPARQL endpoint answers with a non-success status, the handler
\* returns {"error": message} built from the HTTP error with an error status,
\* has filtered nothing, and has returned a response.
C2_NonSuccessStatusIsAnError ==
    (QueryDataDone /\ GraphCalled /\ GraphReply.net = "ok" /\ GraphReply.status >= 400) =>
        /\ IsErrorBody(response)
        /\ response.error = "HTTPError"
        /\ results = <<>> /\ ri = 1 /\ DOMAIN filtered_results = {}

C2_Witness ==
    /\ QueryDataDone /\ GraphCalled
    /\ GraphReply.status = 503
    /\ GraphReply.body = "bindings"
    /\ \E i \in 1..Len(GraphReply.payload) :
         /\ WellFormed(GraphReply.payload[i])
         /\ SomeTermReaches80(GraphReply.payload[i])

\* C3: when the SPARQL query succeeded, the loop went through every row and
\* FilteredResult is empty, the response is the fixed no-data error with an
\* error status, not the message built from an exception.
C3_EmptyResultIsNoData ==
    (QueryDataDone /\ GraphCalled /\ ~CallFailed(GraphReply)
        /\ ri > Len(results) /\ DOMAIN filtered_results = {}) =>
        /\ response.error = "no_data"
        /\ response.status >= 400
        /\ DOMAIN response.data = {} /\ ~response.trailer

C3_Witness ==
    /\ QueryDataDone /\ GraphCalled /\ ~CallFailed(GraphReply)
    /\ Len(results) > 0 /\ ri > Len(results) /\ Len(queries) > 0
    /\ DOMAIN filtered_results = {}
    /\ response.error = "no_data"

\* C4: the response of query_data is either the success body or an error
\* body; an error body carries none of the values accepted so far.
C4_NoPartialResultsWithAnError ==
    QueryDataDone =>
        \/ /\ response.error = "none"
           /\ response.status = 200 /\ response.trailer
           /\ DOMAIN response.data # {}
        \/ IsErrorBody(response)

C4_Witness ==
    /\ QueryDataDone
    /\ response.error = "KeyError"
    /\ ri <= Len(results)
    /\ DOMAIN filtered_results # {}

\* C5: if the thesaurus lookup of some term failed (unreachable, non-success
\* status, malformed body), the response is an error and carries no data.
C5_FailedLookupAbortsTheRequest ==
    (QueryDataDone /\ \E i \in 1..Len(calls) :
                        calls[i].to = "datamuse" /\ CallFailed(calls[i].reply)) =>
        IsErrorBody(response)

\* C6: FilteredResult maps no label to an empty list, and the list of each
\* label is the values of the accepted rows of that label gone through so
\* far, in the order of the rows, each once.
RECURSIVE AcceptedValues(_, _)
AcceptedValues(label, n) ==
    IF n = 0 THEN <<>>
    ELSE IF results[n].wdLabel = label /\ SomeTermReaches80(results[n])
         THEN Append(AcceptedValues(label, n - 1), results[n].ps_Label)
         ELSE AcceptedValues(label, n - 1)

C6_ListsAreTheAcceptedValuesInOrder ==
    endpoint = "query_data" =>
        /\ \A l \in DOMAIN filtered_results :
             /\ filtered_results[l] # <<>>
             /\ filtered_results[l] = AcceptedValues(l, ri - 1)
        /\ \A l \in LabelUniverse \ DOMAIN filtered_results :
             AcceptedValues(l, ri - 1) = <<>>

C6_Witness ==
    /\ endpoint = "query_data"
    /\ \E l \in DOMAIN filtered_results :
         /\ filtered_results[l] = <<"v2", "v1">>
         /\ Cardinality({j \in 1..Len(queries) :
                           partial_ratio(Lower(queries[j]), Lower(l)) >= 80}) >= 2

Reorderings(s) == {[i \in 1..Len(s) |-> s[f[i]]] : f \in Permutations(1..Len(s))}

C8_TermOrderIndependent ==
    (QueryDataDone /\ GraphCalled) =>
        \A p \in Reorderings(queries) :
            /\ AfterSynonyms(p, synonyms, GraphReply) = response
            /\ response.error = "none" =>
                 AfterSynonyms(p, synonyms, GraphReply).data = filtered_results

C8_Witness ==
    /\ QueryDataDone /\ GraphCalled
    /\ response.error = "none"
    /\ Len(queries) = 2
    /\ \E i \in Processed :
         /\ Score(queries[1], results[i]) < 80
         /\ Score(queries[2], results[i]) >= 80
    /\ \E i \in Processed :
         /\ Score(queries[1], results[i]) >= 80
         /\ Score(queries[2], results[i]) < 80

\* C9: when every thesaurus lookup succeeded, the response is the one the
\* handler gives for any other related-word lists the lookups could have
\* returned.
LookupsSucceeded ==
    \A i \in 1..Len(calls) :
        calls[i].to = "datamuse" => ~CallFailed(calls[i].reply)

OtherSynonyms == [1..Len(queries) -> SeqsUpTo(WordUniverse, 1)]

C9_SynonymsDoNotReachTheFilter ==
    (QueryDataDone /\ GraphCalled /\ LookupsSucceeded) =>
        \A other \in OtherSynonyms :
            AfterSynonyms(queries, other, GraphReply) = response

C9_Witness ==
    /\ QueryDataDone /\ GraphCalled /\ LookupsSucceeded
    /\ response.error = "none"
    /\ \E i \in 1..Len(synonyms) : synonyms[i] # <<>>
    /\ \E i \in Processed :
         /\ ~Listed(results[i])
         /\ \E k \in 1..Len(synonyms) : \E w \in 1..Len(synonyms[k]) :
              Score(synonyms[k][w], results[i]) >= 80

\* C10: the outbound calls of query_data are one thesaurus lookup per term in
\* the order of the terms, then one SPARQL call, none issued twice, and none
\* issued after a call that failed.
C10_CallsInOrderNoneAfterAFailure ==
    endpoint = "query_data" =>
        /\ Len(calls) <= Len(queries) + 1
        /\ \A i \in 1..Len(calls) :
             IF i <= Len(queries)
             THEN calls[i].to = "datamuse" /\ calls[i].arg = queries[i]
             ELSE calls[i].to = "sparql"
        /\ \A i \in 1..Len(calls) : CallFailed(calls[i].reply) => i = Len(calls)

====
